---- MODULE Spec2Model ----
(***************************************************************************)
(* Client-side dispatch layer of the ZeroMQ driver, publishing via a      *)
(* proxy: oslo_messaging/_drivers/zmq_driver/client/publishers/dealer/    *)
(* zmq_dealer_publisher_proxy.py.                                          *)
(*                                                                         *)
(* The state is one object of the file and what it owns: a RoutingTable   *)
(* (the local routing-table cache), the socket to the proxy, and the      *)
(* environment the code reads: the clock (time.time()), the matchmaker    *)
(* (service discovery) and the frames the proxy sends back.               *)
(*                                                                         *)
(*   Spec       a RoutingTable driven call by call                        *)
(*   SpecSend   a DealerPublisherProxy or a CallSenderProxy, each with    *)
(*              the RoutingTable it constructs, driven by requests        *)
(*   SpecReply  a ReplyWaiterProxy reading replies off the socket         *)
(*   SpecFault  a DealerPublisherProxy whose socket.send can raise        *)
(*   SpecUpdater  a PublisherConnectionUpdater and its periodic runs      *)
(*                                                                         *)
(* In those every operation is one step: runs are serialized. In the two  *)
(* below the statements of an operation are the steps, and the steps of   *)
(* two threads interleave.                                                 *)
(*                                                                         *)
(*   SpecThreads  get_routable_host called by two threads on one table    *)
(*   SpecSenders  _do_send_request called by two callers on one socket    *)
(***************************************************************************)
EXTENDS Integers, Sequences, FiniteSets, TLC

(***************************************************************************)
(* Bounds of the model.                                                    *)
(***************************************************************************)
MaxTime == 1      \* the clock stops here
MaxInbox == 2     \* multipart messages waiting on the socket
MaxPublishers == 2  \* pairs matchmaker.get_publishers() lists
MaxCalls == 1     \* get_routable_host calls each thread makes
MaxSends == 1     \* _do_send_request calls each caller makes

(***************************************************************************)
(* Values the code takes from outside this file.                           *)
(***************************************************************************)
\* zmq_names message types
CALL_TYPE == 1
CAST_TYPE == 2
CAST_FANOUT_TYPE == 3
REPLY_TYPE == 5

DIRECT_TYPES == {CALL_TYPE, CAST_TYPE, REPLY_TYPE}

Targets == {"T1", "T2"}
MessageIds == {"m1"}

\* the hosts that can listen on a target
HostsOf(t) == CASE t = "T1" -> {"A", "B"}
                [] t = "T2" -> {"C"}

\* str(target): the canonical string of a target, the key of both dicts
TargetStr(t) == CASE t = "T1" -> "<Target T1>"
                  [] t = "T2" -> "<Target T2>"

\* zmq_address.target_to_subscribe_filter(target)
target_to_subscribe_filter(t) == CASE t = "T1" -> "sub/T1"
                                   [] t = "T2" -> "sub/T2"

\* str(n) of a small non-negative integer
IntStr(n) == CASE n = 0 -> "0" [] n = 1 -> "1" [] n = 2 -> "2" [] n = 3 -> "3"
               [] n = 4 -> "4" [] n = 5 -> "5" [] n = 6 -> "6" [] n = 7 -> "7"
               [] n = 8 -> "8" [] n = 9 -> "9"

\* T2 always has its host registered; T1 can lose all of its hosts
MinHosts(t) == IF t = "T2" THEN 1 ELSE 0

\* the lists matchmaker.get_hosts can return for a target: no endpoint twice
HostLists == [t \in Targets |->
                 {s \in UNION {[1..n -> HostsOf(t)] :
                                 n \in MinHosts(t)..Cardinality(HostsOf(t))} :
                    \A i, j \in DOMAIN s : i # j => s[i] # s[j]}]

TargetExpires == {-1, 0, 1}

\* int(s) of a frame: defined on decimal digits, a ValueError otherwise
IsDigits(s) == \E n \in 0..9 : IntStr(n) = s
StrInt(s) == CHOOSE n \in 0..9 : IntStr(n) = s

\* the message types of the requests sent: the call, a direct type and a
\* type that is not direct
SendTypes == {CALL_TYPE, CAST_TYPE, CAST_FANOUT_TYPE}

Requests == [msg_type : SendTypes, target : Targets, message_id : MessageIds,
             context : {"ctx"}, message : {"msg"}]

Publishers == {"DealerPublisherProxy", "CallSenderProxy"}

\* the proxies matchmaker.get_publishers() can list: (pub_address, router_address)
PubAddresses == {"pub1", "pub2"}
RouterAddresses == {"router1", "router2"}
PublisherLists ==
    UNION {[1..n -> PubAddresses \X RouterAddresses] : n \in 0..MaxPublishers}

VARIABLES
    publisher,       \* the class of the object that owns the RoutingTable and the
                     \* socket below ("RoutingTable": the table is driven directly)
    conf,            \* [use_pub_sub, zmq_target_expire]
    now,             \* time.time()
    mm_hosts,        \* matchmaker.get_hosts(target, "DEALER"), per target
    routing_table,   \* RoutingTable.routing_table: str(target) -> <<hosts, tm>>
    routable_hosts,  \* RoutingTable.routable_hosts: str(target) -> list
    socket,          \* frames written on the socket and not yet taken by the proxy
    last,            \* outcome of the last operation
    inbox,           \* frames the proxy sent back, not yet read from the socket
    received,        \* outcome of the last receive_method
    rr_calls,        \* history: per target, the number of get_routable_host calls
                     \* made so far, modulo the length of the discovery result, while
                     \* that result has not changed since the start (-1 once it has)
    generation,      \* history: str(target) -> the hosts of the routing record at
                     \* the last call of _renew_routable_hosts for the target
    mm_publishers,   \* matchmaker.get_publishers(): (pub_address, router_address) pairs
    connections,     \* socket.connections: the addresses the socket is connected to
    heap,            \* the list objects made by list(hosts), by identity
    routable_ref,    \* str(target) -> the identity of the list routable_hosts holds
    thread,          \* per thread inside get_routable_host: position and locals
    handed,          \* history: per target, the hosts popped by the threads, in order
    sender,          \* per caller inside _do_send_request: position and arguments
    writers          \* history: for every frame callers inside _do_send_request
                     \* have put on the socket, the caller that sent it

updaterVars == <<mm_publishers, connections>>
threadVars == <<heap, routable_ref, thread, handed>>
senderVars == <<sender, writers>>

vars == <<publisher, conf, now, mm_hosts, routing_table, routable_hosts, socket,
          last, inbox, received, rr_calls, generation, updaterVars, threadVars,
          senderVars>>

(***************************************************************************)
(* Python dicts.                                                           *)
(***************************************************************************)
Has(d, k) == k \in DOMAIN d
Put(d, k, v) == [x \in (DOMAIN d) \cup {k} |-> IF x = k THEN v ELSE d[x]]
EmptyDict == [x \in {} |-> <<>>]

(***************************************************************************)
(* RoutingTable                                                            *)
(***************************************************************************)
\* an expiry test without the lower bound of the chained comparison
IsTmExpired_no_lower_bound(tm) == conf.zmq_target_expire <= now - tm

\* _is_tm_expired: 0 <= zmq_target_expire <= time.time() - tm
IsTmExpired(tm) ==
    /\ 0 <= conf.zmq_target_expire
    /\ conf.zmq_target_expire <= now - tm

\* _fetch_hosts: routing_table[str(target)] = (get_hosts(...), time.time())
FetchHosts(rt, t) == Put(rt, TargetStr(t), <<mm_hosts[t], now>>)

RECURSIVE Reverse(_)
Reverse(q) == IF q = <<>> THEN <<>> ELSE Append(Reverse(Tail(q)), Head(q))

\* a queue rebuilt in the reverse of the discovery order
RenewRoutableHosts_reversed(rt, rh, t) ==
    Put(rh, TargetStr(t), Reverse(rt[TargetStr(t)][1]))

\* _renew_routable_hosts: routable_hosts[str(target)] = list(hosts)
RenewRoutableHosts(rt, rh, t) == Put(rh, TargetStr(t), rt[TargetStr(t)][1])

\* a refresh of an expired record that also replaces the queue
UpdateRoutingTable_eager(rt, rh, t) ==
    IF ~Has(rt, TargetStr(t)) \/ IsTmExpired(rt[TargetStr(t)][2])
    THEN LET rt1 == FetchHosts(rt, t)
         IN  [rt |-> rt1, rh |-> RenewRoutableHosts(rt1, rh, t), fetched |-> 1,
              renewed |-> TRUE]
    ELSE [rt |-> rt, rh |-> rh, fetched |-> 0, renewed |-> FALSE]

\* _update_routing_table; fetched counts the matchmaker queries made and
\* renewed tells whether _renew_routable_hosts was called
UpdateRoutingTable(rt, rh, t) ==
    IF ~Has(rt, TargetStr(t))
    THEN LET rt1 == FetchHosts(rt, t)
         IN  [rt |-> rt1, rh |-> RenewRoutableHosts(rt1, rh, t), fetched |-> 1,
              renewed |-> TRUE]
    ELSE IF IsTmExpired(rt[TargetStr(t)][2])
    THEN [rt |-> FetchHosts(rt, t), rh |-> rh, fetched |-> 1, renewed |-> FALSE]
    ELSE [rt |-> rt, rh |-> rh, fetched |-> 0, renewed |-> FALSE]

\* get_all_hosts without the copy: the queue itself is returned when it is
\* not empty
GetAllHostsOp_no_copy(rt, rh, t) ==
    LET u == UpdateRoutingTable(rt, rh, t)
        q == IF Has(u.rh, TargetStr(t)) THEN u.rh[TargetStr(t)] ELSE <<>>
    IN  [rt |-> u.rt, rh |-> u.rh, fetched |-> u.fetched, renewed |-> u.renewed,
         hosts |-> q, shared |-> q # <<>>, err |-> "none"]

\* get_all_hosts: list(self.routable_hosts.get(str(target)) or []).
\* shared tells whether the returned list is the queue object itself.
GetAllHostsOp(rt, rh, t) ==
    LET u == UpdateRoutingTable(rt, rh, t)
    IN  [rt |-> u.rt, rh |-> u.rh, fetched |-> u.fetched, renewed |-> u.renewed,
         hosts |-> IF Has(u.rh, TargetStr(t)) THEN u.rh[TargetStr(t)] ELSE <<>>,
         shared |-> FALSE, err |-> "none"]

\* a get_routable_host that pops the last host of the list (pop() for pop(0))
GetRoutableHostOp_pop_last(rt, rh, t) ==
    LET u == UpdateRoutingTable(rt, rh, t)
        k == TargetStr(t)
    IN  IF ~Has(u.rh, k)
        THEN [rt |-> u.rt, rh |-> u.rh, fetched |-> u.fetched,
              renewed |-> u.renewed, host |-> "-", err |-> "KeyError"]
        ELSE IF u.rh[k] = <<>>
        THEN [rt |-> u.rt, rh |-> u.rh, fetched |-> u.fetched,
              renewed |-> u.renewed, host |-> "-", err |-> "IndexError"]
        ELSE LET popped == Put(u.rh, k, SubSeq(u.rh[k], 1, Len(u.rh[k]) - 1))
             IN  [rt |-> u.rt,
                  rh |-> IF popped[k] = <<>>
                         THEN RenewRoutableHosts(u.rt, popped, t)
                         ELSE popped,
                  fetched |-> u.fetched,
                  renewed |-> u.renewed \/ popped[k] = <<>>,
                  host |-> u.rh[k][Len(u.rh[k])], err |-> "none"]

\* get_routable_host
GetRoutableHostOp(rt, rh, t) ==
    LET u == UpdateRoutingTable(rt, rh, t)
        k == TargetStr(t)
    IN  IF ~Has(u.rh, k)
        THEN [rt |-> u.rt, rh |-> u.rh, fetched |-> u.fetched,
              renewed |-> u.renewed, host |-> "-", err |-> "KeyError"]
        ELSE IF u.rh[k] = <<>>
        THEN \* hosts_for_target.pop(0) on an empty list
             [rt |-> u.rt, rh |-> u.rh, fetched |-> u.fetched,
              renewed |-> u.renewed, host |-> "-", err |-> "IndexError"]
        ELSE LET popped == Put(u.rh, k, Tail(u.rh[k]))
             IN  [rt |-> u.rt,
                  rh |-> IF popped[k] = <<>>
                         THEN RenewRoutableHosts(u.rt, popped, t)
                         ELSE popped,
                  fetched |-> u.fetched,
                  renewed |-> u.renewed \/ popped[k] = <<>>,
                  host |-> Head(u.rh[k]), err |-> "none"]

\* history of _renew_routable_hosts: r is the outcome of a lookup on t
Renewed(r, t) ==
    IF r.renewed THEN Put(generation, TargetStr(t), r.rt[TargetStr(t)][1])
    ELSE generation

\* history of get_routable_host calls on t
Counted(t) ==
    [rr_calls EXCEPT ![t] = IF @ < 0 \/ mm_hosts[t] = <<>> THEN @
                            ELSE (@ + 1) % Len(mm_hosts[t])]

Outcome(op, t, host, hosts, shared, fetched, err) ==
    [op |-> op, target |-> t, host |-> host, hosts |-> hosts,
     shared |-> shared, fetched |-> fetched, err |-> err]

(***************************************************************************)
(* DealerPublisherProxy                                                    *)
(***************************************************************************)
\* one part of a multipart message: socket.send(data, SNDMORE) or
\* socket.send_pyobj(obj, SNDMORE); pyobj marks a pickled object
Frame(data, pyobj, more) == [data |-> data, pyobj |-> pyobj, more |-> more]

\* the six sends with the last one flagged SNDMORE too
DoSendRequest_all_sndmore(sock, request, routing_key) ==
    sock \o << Frame("", FALSE, TRUE),
               Frame(IntStr(request.msg_type), FALSE, TRUE),
               Frame(routing_key, FALSE, TRUE),
               Frame(request.message_id, FALSE, TRUE),
               Frame(request.context, TRUE, TRUE),
               Frame(request.message, TRUE, TRUE) >>

\* _do_send_request: the six sends, appended to the frames on the socket
DoSendRequest(sock, request, routing_key) ==
    sock \o << Frame("", FALSE, TRUE),
               Frame(IntStr(request.msg_type), FALSE, TRUE),
               Frame(routing_key, FALSE, TRUE),
               Frame(request.message_id, FALSE, TRUE),
               Frame(request.context, TRUE, TRUE),
               Frame(request.message, TRUE, FALSE) >>

\* a loop that stops after the first routing key
SendToAll_first_only(sock, request, routing_keys) ==
    IF routing_keys = <<>> THEN sock
    ELSE DoSendRequest(sock, request, Head(routing_keys))

\* for routing_key in routing_keys: self._do_send_request(request, routing_key)
RECURSIVE SendToAll(_, _, _)
SendToAll(sock, request, routing_keys) ==
    IF routing_keys = <<>> THEN sock
    ELSE SendToAll(DoSendRequest(sock, request, Head(routing_keys)),
                   request, Tail(routing_keys))

SendResult(rt, rh, sock, fetched, renewed, host, hosts, lookup, err) ==
    [rt |-> rt, rh |-> rh, sock |-> sock, fetched |-> fetched,
     renewed |-> renewed, host |-> host, hosts |-> hosts, lookup |-> lookup,
     err |-> err]

\* the test of line 54 inverted
IsDirect_inverted(msg_type) == msg_type \notin DIRECT_TYPES

\* request.msg_type in zmq_names.DIRECT_TYPES
IsDirect(msg_type) == msg_type \in DIRECT_TYPES

\* a dispatch that sends the empty delimiter before it resolves the endpoint
Dispatch_delimiter_first(rt, rh, sock, request) ==
    IF conf.use_pub_sub
    THEN IF IsDirect(request.msg_type)
         THEN LET g == GetRoutableHostOp(rt, rh, request.target)
              IN  IF g.err # "none"
                  THEN SendResult(g.rt, g.rh, Append(sock, Frame("", FALSE, TRUE)),
                                  g.fetched, g.renewed, "-", <<>>,
                                  "get_routable_host", g.err)
                  ELSE SendResult(g.rt, g.rh, DoSendRequest(sock, request, g.host),
                                  g.fetched, g.renewed, g.host, <<>>,
                                  "get_routable_host", "none")
         ELSE SendResult(rt, rh,
                         DoSendRequest(sock, request,
                                       target_to_subscribe_filter(request.target)),
                         0, FALSE, "-", <<>>, "none", "none")
    ELSE LET a == GetAllHostsOp(rt, rh, request.target)
         IN  SendResult(a.rt, a.rh, SendToAll(sock, request, a.hosts),
                        a.fetched, a.renewed, "-", a.hosts, "get_all_hosts", "none")

\* send_request after the CALL check; lookup names the RoutingTable method
\* called, if any
Dispatch(rt, rh, sock, request) ==
    IF conf.use_pub_sub
    THEN IF IsDirect(request.msg_type)
         THEN LET g == GetRoutableHostOp(rt, rh, request.target)
              IN  IF g.err # "none"
                  THEN SendResult(g.rt, g.rh, sock, g.fetched, g.renewed, "-", <<>>,
                                  "get_routable_host", g.err)
                  ELSE SendResult(g.rt, g.rh, DoSendRequest(sock, request, g.host),
                                  g.fetched, g.renewed, g.host, <<>>,
                                  "get_routable_host", "none")
         ELSE SendResult(rt, rh,
                         DoSendRequest(sock, request,
                                       target_to_subscribe_filter(request.target)),
                         0, FALSE, "-", <<>>, "none", "none")
    ELSE LET a == GetAllHostsOp(rt, rh, request.target)
         IN  SendResult(a.rt, a.rh, SendToAll(sock, request, a.hosts),
                        a.fetched, a.renewed, "-", a.hosts, "get_all_hosts", "none")

\* send_request without the CALL check
SendRequestOp_no_call_check(rt, rh, sock, request) ==
    Dispatch(rt, rh, sock, request)

\* send_request
SendRequestOp(rt, rh, sock, request) ==
    IF request.msg_type = CALL_TYPE
    THEN SendResult(rt, rh, sock, 0, FALSE, "-", <<>>, "none",
                    "UnsupportedSendPattern")
    ELSE Dispatch(rt, rh, sock, request)

\* send_request when a socket.send in it raises (zmq.ZMQError): the f-th send
\* of the i-th _do_send_request. The lookup has been made and the sends
\* before the failing one have written their frames; send_request has no
\* except clause, so the exception leaves the loop of line 59 and the method.
SendRequestFailingOp(rt, rh, sock, request, i, f) ==
    [Dispatch(rt, rh, <<>>, request) EXCEPT
       !.sock = sock \o SubSeq(@, 1, 6 * (i - 1) + f - 1),
       !.err = "ZMQError"]

(***************************************************************************)
(* CallSenderProxy                                                         *)
(***************************************************************************)
\* _connect_socket(target): the one socket to the publishers, for every target
ConnectSocket(sock, t) == sock

\* a call sender that dispatches as send_request does after its CALL check
CallDoSendRequestOp_as_dispatch(rt, rh, sock, request) ==
    Dispatch(rt, rh, sock, request)

\* _do_send_request(socket, request): one lookup, then the six sends
CallDoSendRequestOp(rt, rh, sock, request) ==
    LET g == GetRoutableHostOp(rt, rh, request.target)
    IN  IF g.err # "none"
        THEN SendResult(g.rt, g.rh, sock, g.fetched, g.renewed, "-", <<>>,
                        "get_routable_host", g.err)
        ELSE SendResult(g.rt, g.rh,
                        sock \o << Frame("", FALSE, TRUE),
                                   Frame(IntStr(request.msg_type), FALSE, TRUE),
                                   Frame(g.host, FALSE, TRUE),
                                   Frame(request.message_id, FALSE, TRUE),
                                   Frame(request.context, TRUE, TRUE),
                                   Frame(request.message, TRUE, FALSE) >>,
                        g.fetched, g.renewed, g.host, <<>>,
                        "get_routable_host", "none")

(***************************************************************************)
(* PublisherConnectionUpdater                                              *)
(***************************************************************************)
\* socket.connect_to_host(address): connecting to an address the socket is
\* connected to already changes nothing
ConnectToHost(conns, address) == conns \cup {address}

UpdateResult(conns, calls) == [connections |-> conns, calls |-> calls]

\* a loop that connects to the pub_address of each pair
RECURSIVE UpdateConnectionOp_pub_address(_, _, _)
UpdateConnectionOp_pub_address(conns, calls, publishers) ==
    IF publishers = <<>> THEN UpdateResult(conns, calls)
    ELSE UpdateConnectionOp_pub_address(ConnectToHost(conns, Head(publishers)[1]),
                                        Append(calls, Head(publishers)[1]),
                                        Tail(publishers))

\* _update_connection: for pub_address, router_address in publishers:
\* self.socket.connect_to_host(router_address); calls lists the calls made
RECURSIVE UpdateConnectionOp(_, _, _)
UpdateConnectionOp(conns, calls, publishers) ==
    IF publishers = <<>> THEN UpdateResult(conns, calls)
    ELSE UpdateConnectionOp(ConnectToHost(conns, Head(publishers)[2]),
                            Append(calls, Head(publishers)[2]),
                            Tail(publishers))

(***************************************************************************)
(* ReplyWaiterProxy                                                        *)
(***************************************************************************)
Received(reply, err, consumed) == [reply |-> reply, err |-> err, consumed |-> consumed]

\* receive_method without the test of the message type
ReceiveMethodOp_no_type_check(frames) ==
    IF frames[1].data # ""
    THEN Received("-", "AssertionError", 1)
    ELSE IF ~IsDigits(frames[3].data)
    THEN Received("-", "ValueError", 3)
    ELSE IF ~frames[5].pyobj
    THEN Received("-", "UnpicklingError", 5)
    ELSE Received(frames[5].data, "none", 5)

\* receive_method(socket) on the frames waiting in the socket, each recv()
\* taking the next one; consumed is the number of frames it has read when it
\* returns or raises
ReceiveMethodOp(frames) ==
    IF frames[1].data # ""
    THEN Received("-", "AssertionError", 1)          \* "Empty expected!"
    ELSE IF ~IsDigits(frames[3].data)
    THEN Received("-", "ValueError", 3)              \* int(socket.recv())
    ELSE IF StrInt(frames[3].data) # REPLY_TYPE
    THEN Received("-", "AssertionError", 3)          \* "Reply is expected!"
    ELSE IF ~frames[5].pyobj
    THEN Received("-", "UnpicklingError", 5)         \* socket.recv_pyobj()
    ELSE Received(frames[5].data, "none", 5)

\* the number of frames receive_method needs before it returns or raises; a
\* recv() on a socket with no frame waits for the next one
FramesNeeded(frames) ==
    IF frames = <<>> THEN 1
    ELSE IF frames[1].data # "" THEN 1
    ELSE IF Len(frames) < 3 THEN 3
    ELSE IF ~IsDigits(frames[3].data) \/ StrInt(frames[3].data) # REPLY_TYPE THEN 3
    ELSE 5

(***************************************************************************)
(* Operations                                                              *)
(***************************************************************************)
GetAllHosts(t) ==
    LET r == GetAllHostsOp(routing_table, routable_hosts, t)
    IN  /\ routing_table' = r.rt
        /\ routable_hosts' = r.rh
        /\ last' = Outcome("get_all_hosts", t, "-", r.hosts, r.shared,
                           r.fetched, r.err)
        /\ generation' = Renewed(r, t)
        /\ UNCHANGED <<updaterVars, threadVars, senderVars, inbox, received, publisher, conf, now, mm_hosts, socket, rr_calls>>

GetRoutableHost(t) ==
    LET r == GetRoutableHostOp(routing_table, routable_hosts, t)
    IN  /\ routing_table' = r.rt
        /\ routable_hosts' = r.rh
        /\ last' = Outcome("get_routable_host", t, r.host, <<>>, FALSE,
                           r.fetched, r.err)
        /\ rr_calls' = Counted(t)
        /\ generation' = Renewed(r, t)
        /\ UNCHANGED <<updaterVars, threadVars, senderVars, inbox, received, publisher, conf, now, mm_hosts, socket>>

\* the caller changes the list get_all_hosts handed it (it drops the head)
CallerMutatesHosts ==
    /\ last.op = "get_all_hosts"
    /\ last.hosts # <<>>
    /\ last' = [last EXCEPT !.op = "caller_mutates", !.hosts = Tail(@)]
    /\ routable_hosts' = IF last.shared
                         THEN Put(routable_hosts, TargetStr(last.target),
                                  Tail(routable_hosts[TargetStr(last.target)]))
                         ELSE routable_hosts
    /\ UNCHANGED <<generation, updaterVars, threadVars, senderVars, inbox, received, publisher, conf, now, mm_hosts, routing_table, socket, rr_calls>>

\* The backlog of the socket is bounded: the runs explored are those in which
\* the proxy has taken the frames of the earlier requests before an operation
\* writes new ones.
SocketReady(sock) == sock = socket \/ socket = <<>>

\* DealerPublisherProxy.send_request(request)
SendRequest(request) ==
    LET r == SendRequestOp(routing_table, routable_hosts, socket, request)
    IN  /\ publisher = "DealerPublisherProxy"
        /\ SocketReady(r.sock)
        /\ routing_table' = r.rt
        /\ routable_hosts' = r.rh
        /\ socket' = r.sock
        /\ last' = Outcome("send_request", request.target, r.host, r.hosts,
                           FALSE, r.fetched, r.err)
        /\ rr_calls' = IF r.lookup = "get_routable_host"
                       THEN Counted(request.target) ELSE rr_calls
        /\ generation' = Renewed(r, request.target)
        /\ UNCHANGED <<updaterVars, threadVars, senderVars, inbox, received, publisher, conf, now, mm_hosts>>

\* CallSenderProxy._do_send_request(self._connect_socket(target), request)
CallDoSendRequest(request) ==
    LET r == CallDoSendRequestOp(routing_table, routable_hosts,
                                 ConnectSocket(socket, request.target), request)
    IN  /\ publisher = "CallSenderProxy"
        /\ SocketReady(r.sock)
        /\ routing_table' = r.rt
        /\ routable_hosts' = r.rh
        /\ socket' = r.sock
        /\ last' = Outcome("call_do_send_request", request.target, r.host, r.hosts,
                           FALSE, r.fetched, r.err)
        /\ rr_calls' = Counted(request.target)
        /\ generation' = Renewed(r, request.target)
        /\ UNCHANGED <<updaterVars, threadVars, senderVars, inbox, received, publisher, conf, now, mm_hosts>>

\* DealerPublisherProxy.send_request(request) in which the f-th send of the
\* i-th envelope raises
SendRequestFails(request, i, f) ==
    LET r == SendRequestFailingOp(routing_table, routable_hosts, socket,
                                  request, i, f)
    IN  /\ publisher = "DealerPublisherProxy"
        /\ request.msg_type # CALL_TYPE
        /\ LET d == Dispatch(routing_table, routable_hosts, <<>>, request)
           IN  d.err = "none" /\ 6 * i <= Len(d.sock)
        /\ SocketReady(r.sock)
        /\ routing_table' = r.rt
        /\ routable_hosts' = r.rh
        /\ socket' = r.sock
        /\ last' = Outcome("send_request", request.target, r.host, r.hosts,
                           FALSE, r.fetched, r.err)
        /\ rr_calls' = IF r.lookup = "get_routable_host"
                       THEN Counted(request.target) ELSE rr_calls
        /\ generation' = Renewed(r, request.target)
        /\ UNCHANGED <<updaterVars, threadVars, senderVars, inbox, received, publisher, conf, now, mm_hosts>>

\* PublisherConnectionUpdater._update_connection(), one periodic run
UpdateConnection ==
    LET r == UpdateConnectionOp(connections, <<>>, mm_publishers)
    IN  /\ connections' = r.connections
        /\ last' = Outcome("update_connection", "-", "-", r.calls, FALSE, 0, "none")
        /\ UNCHANGED <<generation, mm_publishers, threadVars, senderVars, inbox,
                       received, publisher, conf, now, mm_hosts, routing_table,
                       routable_hosts, socket, rr_calls>>

(***************************************************************************)
(* get_routable_host run by threads that share one RoutingTable: each      *)
(* statement of lines 153-158 and 164-177 is a step, and the steps of the  *)
(* threads interleave in every order (the file takes no lock). The lists   *)
(* of routable_hosts are objects of the heap: hosts_for_target is a        *)
(* reference, and _renew_routable_hosts binds the key to a new list.       *)
(***************************************************************************)
Threads == {1, 2}

ThreadIdle ==
    [pc |-> "idle", target |-> "-", ref |-> 0, host |-> "-", err |-> "none",
     calls |-> 0]

\* routable_hosts as the dict of the lists the references lead to
Deref(refs, hp) == [k \in DOMAIN refs |-> hp[refs[k]]]

\* a thread enters get_routable_host(t)
ThreadCall(th, t) ==
    /\ thread[th].pc = "idle"
    /\ thread[th].calls < MaxCalls
    /\ thread' = [thread EXCEPT ![th] =
                    [pc |-> "update", target |-> t, ref |-> 0, host |-> "-",
                     err |-> "none", calls |-> @.calls + 1]]
    /\ UNCHANGED <<generation, updaterVars, senderVars, heap, routable_ref, handed,
                   inbox, received, publisher, conf, now, mm_hosts, routing_table,
                   routable_hosts, socket, last, rr_calls>>

\* lines 164-168: the record is read and tested
ThreadUpdate(th) ==
    LET k == TargetStr(thread[th].target)
    IN  /\ thread[th].pc = "update"
        /\ thread' = [thread EXCEPT ![th].pc =
                        IF ~Has(routing_table, k) THEN "fetch_miss"
                        ELSE IF IsTmExpired(routing_table[k][2]) THEN "fetch_expired"
                        ELSE "read_queue"]
        /\ UNCHANGED <<generation, updaterVars, senderVars, heap, routable_ref,
                       handed, inbox, received, publisher, conf, now, mm_hosts,
                       routing_table, routable_hosts, socket, last, rr_calls>>

\* line 166 or line 169: _fetch_hosts
ThreadFetch(th) ==
    /\ thread[th].pc \in {"fetch_miss", "fetch_expired"}
    /\ routing_table' = FetchHosts(routing_table, thread[th].target)
    /\ thread' = [thread EXCEPT ![th].pc =
                    IF @ = "fetch_miss" THEN "renew_miss" ELSE "read_queue"]
    /\ UNCHANGED <<generation, updaterVars, senderVars, heap, routable_ref, handed,
                   inbox, received, publisher, conf, now, mm_hosts, routable_hosts,
                   socket, last, rr_calls>>

\* line 167 or line 157: _renew_routable_hosts binds the key to a new list
ThreadRenew(th) ==
    LET k == TargetStr(thread[th].target)
    IN  /\ thread[th].pc \in {"renew_miss", "renew_empty"}
        /\ heap' = Append(heap, routing_table[k][1])
        /\ routable_ref' = Put(routable_ref, k, Len(heap) + 1)
        /\ routable_hosts' = Deref(routable_ref', heap')
        /\ generation' = Put(generation, k, routing_table[k][1])
        /\ thread' = [thread EXCEPT ![th].pc =
                        IF @ = "renew_miss" THEN "read_queue" ELSE "return"]
        /\ UNCHANGED <<updaterVars, senderVars, handed, inbox, received, publisher,
                       conf, now, mm_hosts, routing_table, socket, last, rr_calls>>

\* line 154: hosts_for_target = self.routable_hosts[str(target)]
ThreadReadQueue(th) ==
    LET k == TargetStr(thread[th].target)
    IN  /\ thread[th].pc = "read_queue"
        /\ thread' = [thread EXCEPT ![th] =
                        IF Has(routable_ref, k)
                        THEN [@ EXCEPT !.pc = "pop", !.ref = routable_ref[k]]
                        ELSE [@ EXCEPT !.pc = "idle", !.err = "KeyError"]]
        /\ UNCHANGED <<generation, updaterVars, senderVars, heap, routable_ref,
                       handed, inbox, received, publisher, conf, now, mm_hosts,
                       routing_table, routable_hosts, socket, last, rr_calls>>

\* line 155: host = hosts_for_target.pop(0)
ThreadPop(th) ==
    LET l == heap[thread[th].ref]
    IN  /\ thread[th].pc = "pop"
        /\ IF l = <<>>
           THEN /\ thread' = [thread EXCEPT ![th].pc = "idle",
                                            ![th].err = "IndexError"]
                /\ UNCHANGED <<heap, handed, routable_hosts>>
           ELSE /\ thread' = [thread EXCEPT ![th].pc = "test", ![th].host = Head(l)]
                /\ heap' = [heap EXCEPT ![thread[th].ref] = Tail(l)]
                /\ handed' = [handed EXCEPT ![thread[th].target] = Append(@, Head(l))]
                /\ routable_hosts' = Deref(routable_ref, heap')
        /\ UNCHANGED <<generation, updaterVars, senderVars, routable_ref, inbox,
                       received, publisher, conf, now, mm_hosts, routing_table,
                       socket, last, rr_calls>>

\* line 156: if not hosts_for_target
ThreadTest(th) ==
    /\ thread[th].pc = "test"
    /\ thread' = [thread EXCEPT ![th].pc =
                    IF heap[thread[th].ref] = <<>> THEN "renew_empty" ELSE "return"]
    /\ UNCHANGED <<generation, updaterVars, senderVars, heap, routable_ref, handed,
                   inbox, received, publisher, conf, now, mm_hosts, routing_table,
                   routable_hosts, socket, last, rr_calls>>

\* line 158: return host
ThreadReturn(th) ==
    /\ thread[th].pc = "return"
    /\ thread' = [thread EXCEPT ![th].pc = "idle"]
    /\ last' = Outcome("get_routable_host", thread[th].target, thread[th].host,
                       <<>>, FALSE, 0, "none")
    /\ UNCHANGED <<generation, updaterVars, senderVars, heap, routable_ref, handed,
                   inbox, received, publisher, conf, now, mm_hosts, routing_table,
                   routable_hosts, socket, rr_calls>>

(***************************************************************************)
(* _do_send_request run by callers that share the socket of one publisher: *)
(* each of the six sends is a step, and the steps of the callers           *)
(* interleave in every order (the file takes no lock).                     *)
(***************************************************************************)
Callers == {1, 2}

\* pc: the send the caller makes next (0: outside _do_send_request)
SenderIdle ==
    [pc |-> 0, request |-> "-", routing_key |-> "-", sends |-> 0]

\* a caller enters _do_send_request with the routing key resolved for it
SenderCall(c, request, routing_key) ==
    /\ sender[c].pc = 0
    /\ sender[c].sends < MaxSends
    /\ (publisher = "CallSenderProxy") = (request.msg_type = CALL_TYPE)
    /\ routing_key \in HostsOf(request.target)
    /\ sender' = [sender EXCEPT ![c] =
                    [pc |-> 1, request |-> request, routing_key |-> routing_key,
                     sends |-> @.sends + 1]]
    /\ UNCHANGED <<generation, updaterVars, threadVars, writers, inbox, received,
                   publisher, conf, now, mm_hosts, routing_table, routable_hosts,
                   socket, last, rr_calls>>

\* one of the sends of lines 63-68 (lines 108-113 in the CallSenderProxy)
SenderSend(c) ==
    /\ sender[c].pc > 0
    /\ socket' = Append(socket,
                        DoSendRequest(<<>>, sender[c].request,
                                      sender[c].routing_key)[sender[c].pc])
    /\ writers' = Append(writers, c)
    /\ sender' = [sender EXCEPT ![c].pc = IF @ = 6 THEN 0 ELSE @ + 1]
    /\ UNCHANGED <<generation, updaterVars, threadVars, inbox, received, publisher,
                   conf, now, mm_hosts, routing_table, routable_hosts, last,
                   rr_calls>>

(***************************************************************************)
(* Environment                                                             *)
(***************************************************************************)
\* the clock advances
Tick ==
    /\ now < MaxTime
    /\ now' = now + 1
    /\ UNCHANGED <<generation, updaterVars, threadVars, senderVars, inbox, received, publisher, conf, mm_hosts, routing_table, routable_hosts, socket, last, rr_calls>>

\* the set of hosts registered for a target changes
Discover(t, hs) ==
    /\ hs # mm_hosts[t]
    /\ mm_hosts' = [mm_hosts EXCEPT ![t] = hs]
    /\ rr_calls' = [rr_calls EXCEPT ![t] = -1]
    /\ UNCHANGED <<generation, updaterVars, threadVars, senderVars, inbox, received, publisher, conf, now, routing_table, routable_hosts, socket, last>>

\* the length of the first multipart message on the socket (0: none complete)
RECURSIVE FirstMessageLen(_, _)
FirstMessageLen(sock, i) ==
    IF i > Len(sock) THEN 0
    ELSE IF ~sock[i].more THEN i
    ELSE FirstMessageLen(sock, i + 1)

\* the proxy at the other end takes the next complete multipart message
ProxyTakesMessage ==
    /\ FirstMessageLen(socket, 1) > 0
    /\ socket' = SubSeq(socket, FirstMessageLen(socket, 1) + 1, Len(socket))
    /\ UNCHANGED <<generation, updaterVars, threadVars, senderVars, inbox, received, publisher, conf, now, mm_hosts, routing_table, routable_hosts, last, rr_calls>>

\* the multipart messages the proxy can send back on the socket
ReplyMessages ==
    {<< Frame(e, FALSE, TRUE), Frame("id", FALSE, TRUE), Frame(ty, FALSE, TRUE),
        Frame(mid, FALSE, TRUE), Frame(r, TRUE, FALSE) >> :
       e \in {"", "x"}, ty \in {IntStr(REPLY_TYPE), IntStr(CAST_TYPE), "x"},
       mid \in MessageIds, r \in {"r1", "r2"}}

\* a multipart message arrives on the socket
Deliver(msg) ==
    /\ Len(inbox) + Len(msg) <= 5 * MaxInbox
    /\ inbox' = inbox \o msg
    /\ UNCHANGED <<generation, updaterVars, threadVars, senderVars, publisher, conf, now, mm_hosts, routing_table, routable_hosts,
                   socket, last, received, rr_calls>>

\* ReplyWaiterProxy.receive_method(socket), called when the socket is readable
ReceiveMethod ==
    /\ inbox # <<>>
    /\ Len(inbox) >= FramesNeeded(inbox)
    /\ received' = ReceiveMethodOp(inbox)
    /\ inbox' = SubSeq(inbox, received'.consumed + 1, Len(inbox))
    /\ UNCHANGED <<generation, updaterVars, threadVars, senderVars, publisher, conf, now, mm_hosts, routing_table, routable_hosts,
                   socket, last, rr_calls>>

InitState ==
    /\ now = 0
    /\ mm_hosts \in [Targets -> UNION {HostLists[t] : t \in Targets}]
    /\ \A t \in Targets : mm_hosts[t] \in HostLists[t]
    /\ routing_table = EmptyDict
    /\ routable_hosts = EmptyDict
    /\ socket = <<>>
    /\ last = Outcome("init", "-", "-", <<>>, FALSE, 0, "none")
    /\ rr_calls = [t \in Targets |-> 0]
    /\ inbox = <<>>
    /\ received = Received("-", "none", 0)
    /\ generation = EmptyDict
    /\ mm_publishers = <<>>
    /\ connections = {}
    /\ heap = <<>>
    /\ routable_ref = EmptyDict
    /\ thread = [th \in Threads |-> ThreadIdle]
    /\ handed = [t \in Targets |-> <<>>]
    /\ sender = [c \in Callers |-> SenderIdle]
    /\ writers = <<>>

\* a RoutingTable driven call by call (it does not read use_pub_sub)
Init ==
    /\ publisher = "RoutingTable"
    /\ conf \in [use_pub_sub : {FALSE}, zmq_target_expire : TargetExpires]
    /\ InitState

\* a publisher and its own RoutingTable (lines 43 and 97), driven by requests
InitSend ==
    /\ publisher \in Publishers
    /\ conf \in [use_pub_sub : BOOLEAN, zmq_target_expire : TargetExpires]
    /\ InitState

Next ==
    \/ \E t \in Targets : GetAllHosts(t)
    \/ \E t \in Targets : GetRoutableHost(t)
    \/ CallerMutatesHosts
    \/ Tick
    \/ \E t \in Targets : \E hs \in HostLists[t] : Discover(t, hs)

Spec == Init /\ [][Next]_vars

NextSend ==
    \/ \E request \in Requests : SendRequest(request)
    \/ \E request \in Requests : CallDoSendRequest(request)
    \/ ProxyTakesMessage
    \/ Tick
    \/ \E t \in Targets : \E hs \in HostLists[t] : Discover(t, hs)

SpecSend == InitSend /\ [][NextSend]_vars

\* a ReplyWaiterProxy polling the socket
InitReply ==
    /\ publisher = "ReplyWaiterProxy"
    /\ conf \in [use_pub_sub : {FALSE}, zmq_target_expire : {-1}]
    /\ InitState

NextReply ==
    \/ \E msg \in ReplyMessages : Deliver(msg)
    \/ ReceiveMethod

SpecReply == InitReply /\ [][NextReply]_vars

\* a DealerPublisherProxy whose sends can fail
InitFault ==
    /\ publisher = "DealerPublisherProxy"
    /\ conf \in [use_pub_sub : BOOLEAN, zmq_target_expire : {-1}]
    /\ InitState

NextFault ==
    \/ \E request \in Requests : SendRequest(request)
    \/ \E request \in Requests : \E i \in 1..2 : \E f \in 1..6 :
         SendRequestFails(request, i, f)
    \/ ProxyTakesMessage

SpecFault == InitFault /\ [][NextFault]_vars

\* the proxies registered with the matchmaker change
DiscoverPublishers(ps) ==
    /\ ps # mm_publishers
    /\ mm_publishers' = ps
    /\ UNCHANGED <<generation, connections, threadVars, senderVars, inbox,
                   received, publisher, conf, now, mm_hosts, routing_table,
                   routable_hosts, socket, last, rr_calls>>

\* a PublisherConnectionUpdater and the socket it was given
InitUpdater ==
    /\ publisher = "PublisherConnectionUpdater"
    /\ conf \in [use_pub_sub : {FALSE}, zmq_target_expire : {-1}]
    /\ InitState

NextUpdater ==
    \/ UpdateConnection
    \/ \E ps \in PublisherLists : DiscoverPublishers(ps)

SpecUpdater == InitUpdater /\ [][NextUpdater]_vars

\* one RoutingTable looked up by two threads
InitThreads ==
    /\ publisher = "RoutingTable"
    /\ conf \in [use_pub_sub : {FALSE}, zmq_target_expire : {-1, 0}]
    /\ InitState

NextThreads ==
    \/ \E th \in Threads : \E t \in Targets : ThreadCall(th, t)
    \/ \E th \in Threads : ThreadUpdate(th)
    \/ \E th \in Threads : ThreadFetch(th)
    \/ \E th \in Threads : ThreadRenew(th)
    \/ \E th \in Threads : ThreadReadQueue(th)
    \/ \E th \in Threads : ThreadPop(th)
    \/ \E th \in Threads : ThreadTest(th)
    \/ \E th \in Threads : ThreadReturn(th)

SpecThreads == InitThreads /\ [][NextThreads]_vars

\* one publisher whose socket is written by two callers
InitSenders ==
    /\ publisher \in Publishers
    /\ conf \in [use_pub_sub : {TRUE}, zmq_target_expire : {-1}]
    /\ InitState
    /\ \A t \in Targets : Len(mm_hosts[t]) = Cardinality(HostsOf(t))

NextSenders ==
    \/ \E c \in Callers : \E request \in Requests :
         \E routing_key \in UNION {HostsOf(t) : t \in Targets} :
           SenderCall(c, request, routing_key)
    \/ \E c \in Callers : SenderSend(c)

SpecSenders == InitSenders /\ [][NextSenders]_vars

(***************************************************************************)
(* Properties                                                              *)
(***************************************************************************)
Key(t) == TargetStr(t)

\* the i-th six-frame envelope of a frame stream
EnvelopeAt(sock, i) == SubSeq(sock, 6 * (i - 1) + 1, 6 * i)

\* C1: while the discovery result of a target is a fixed non-empty list of N
\* endpoints, the k-th get_routable_host call on the target (k >= 0) returns
\* the endpoint at index k mod N of that list.
C1_RoundRobinCycle ==
    [][\A t \in Targets :
         (GetRoutableHost(t) /\ rr_calls[t] >= 0 /\ mm_hosts[t] # <<>>)
         => /\ last'.err = "none"
            /\ last'.host = mm_hosts[t][rr_calls[t] + 1]]_vars

\* two endpoints, and the call that returned the second has closed the cycle
C1_Witness ==
    /\ last.op = "get_routable_host"
    /\ last.target = "T1"
    /\ Len(mm_hosts["T1"]) = 2
    /\ rr_calls["T1"] = 0
    /\ last.host = mm_hosts["T1"][2]
    /\ routable_hosts[Key("T1")] = mm_hosts["T1"]

\* C2: a lookup that finds the record of a target expired and re-fetches it
\* leaves the remaining endpoints of a non-empty queue in place and in order:
\* get_all_hosts leaves the queue as it was, get_routable_host returns the head
\* of the old queue, and the endpoints of the newly fetched record become the
\* queue only when that pop has emptied the old one.
C2_RefreshKeepsQueue ==
    [][\A t \in Targets :
         ( /\ Has(routing_table, Key(t))
           /\ IsTmExpired(routing_table[Key(t)][2])
           /\ Has(routable_hosts, Key(t))
           /\ routable_hosts[Key(t)] # <<>> )
         => LET q == routable_hosts[Key(t)]
            IN  /\ GetAllHosts(t) =>
                     /\ routing_table'[Key(t)][1] = mm_hosts[t]
                     /\ routable_hosts'[Key(t)] = q
                /\ GetRoutableHost(t) =>
                     /\ routing_table'[Key(t)][1] = mm_hosts[t]
                     /\ last'.err = "none"
                     /\ last'.host = Head(q)
                     /\ routable_hosts'[Key(t)] =
                          IF Len(q) > 1 THEN Tail(q) ELSE mm_hosts[t]]_vars

\* the record was re-fetched as [B], the call still returned A from the old
\* queue, and the queue it emptied was rebuilt as [B]
C2_Witness ==
    /\ last.op = "get_routable_host"
    /\ last.target = "T1"
    /\ last.fetched = 1
    /\ last.host = "A"
    /\ routing_table[Key("T1")][1] = <<"B">>
    /\ routable_hosts[Key("T1")] = <<"B">>

\* C3: send_request of a CALL request raises UnsupportedSendPattern and does
\* nothing else, with use_pub_sub on or off: no frame is written, the
\* matchmaker is not queried, no routing record or queue changes.
C3_CallRejectedFirst ==
    [][\A request \in Requests :
         (request.msg_type = CALL_TYPE /\ SendRequest(request))
         => /\ last'.err = "UnsupportedSendPattern"
            /\ last'.fetched = 0
            /\ UNCHANGED <<socket, routing_table, routable_hosts>>]_vars

\* a CALL was rejected on a target that has hosts, and no record was made
C3_Witness ==
    /\ last.op = "send_request"
    /\ last.err = "UnsupportedSendPattern"
    /\ mm_hosts[last.target] # <<>>
    /\ routing_table = EmptyDict
    /\ socket = <<>>

\* C4: with use_pub_sub off, send_request of a request that is not a CALL, to
\* a target whose snapshot (the list get_all_hosts returns) is [e1..en], writes
\* exactly n envelopes after the frames already on the socket, the i-th with
\* routing key ei, all n equal in every other frame; the queue of the target
\* is not consumed.
C4_FanOutPerSnapshot ==
    [][\A request \in Requests :
         (~conf.use_pub_sub /\ request.msg_type # CALL_TYPE /\ SendRequest(request))
         => LET k == Key(request.target)
                snap == routable_hosts'[k]
                n == Len(snap)
            IN  /\ last'.err = "none"
                /\ Len(socket') = Len(socket) + 6 * n
                /\ SubSeq(socket', 1, Len(socket)) = socket
                /\ \A i \in 1..n :
                     LET e == SubSeq(socket', Len(socket) + 6 * (i - 1) + 1,
                                     Len(socket) + 6 * i)
                         e1 == SubSeq(socket', Len(socket) + 1, Len(socket) + 6)
                     IN  /\ e[3].data = snap[i]
                         /\ \A f \in {1, 2, 4, 5, 6} : e[f] = e1[f]
                         /\ e[2].data = IntStr(request.msg_type)
                         /\ e[4].data = request.message_id
                /\ Has(routable_hosts, k) => routable_hosts'[k] = routable_hosts[k]]_vars

\* two envelopes on the socket, to the two hosts of the snapshot in its order
C4_Witness ==
    /\ ~conf.use_pub_sub
    /\ last.op = "send_request"
    /\ last.err = "none"
    /\ Len(last.hosts) = 2
    /\ Len(socket) = 12
    /\ socket[3].data = last.hosts[1]
    /\ socket[9].data = last.hosts[2]
    /\ routable_hosts[Key(last.target)] = last.hosts

\* the queue get_routable_host finds for t: the one of the table, or the one
\* a first lookup builds from the hosts it fetches
QueueFound(t) ==
    IF Has(routable_hosts, Key(t)) THEN routable_hosts[Key(t)] ELSE mm_hosts[t]

\* C5 as stated: with use_pub_sub on, every send_request of a request that is
\* not a CALL writes exactly one envelope.
C5_Original ==
    [][\A request \in Requests :
         (conf.use_pub_sub /\ request.msg_type # CALL_TYPE /\ SendRequest(request))
         => Len(socket') = Len(socket) + 6]_vars

\* C5 as amended: with use_pub_sub on, send_request of a request that is not a
\* CALL writes one envelope addressed by the subscribe filter of the target,
\* without any lookup, when the type is not direct; when it is direct it
\* writes one envelope addressed to the endpoint popped from the queue of the
\* target, which advances by one position, unless that queue is empty: then
\* the lookup raises and no frame is written.
C5_PubSubOneEnvelope ==
    [][\A request \in Requests :
         (conf.use_pub_sub /\ request.msg_type # CALL_TYPE /\ SendRequest(request))
         => LET t == request.target
                q == QueueFound(t)
                e == SubSeq(socket', Len(socket) + 1, Len(socket) + 6)
            IN  IF request.msg_type \in DIRECT_TYPES
                THEN IF q = <<>>
                     THEN /\ last'.err # "none"
                          /\ socket' = socket
                          /\ routable_hosts'[Key(t)] = <<>>
                     ELSE /\ last'.err = "none"
                          /\ Len(socket') = Len(socket) + 6
                          /\ SubSeq(socket', 1, Len(socket)) = socket
                          /\ e[3].data = Head(q)
                          /\ routable_hosts'[Key(t)] =
                               IF Len(q) > 1 THEN Tail(q)
                               ELSE routing_table'[Key(t)][1]
                ELSE /\ last'.err = "none"
                     /\ Len(socket') = Len(socket) + 6
                     /\ SubSeq(socket', 1, Len(socket)) = socket
                     /\ e[3].data = target_to_subscribe_filter(t)
                     /\ last'.fetched = 0
                     /\ UNCHANGED <<routing_table, routable_hosts>>]_vars

\* one envelope to A, popped from the queue [A, B], which is now [B]
C5_Witness ==
    /\ conf.use_pub_sub
    /\ last.op = "send_request"
    /\ last.err = "none"
    /\ last.host = "A"
    /\ Len(socket) = 6
    /\ socket[2].data = IntStr(CAST_TYPE)
    /\ socket[3].data = "A"
    /\ routable_hosts[Key("T1")] = <<"B">>

\* the routing keys a publisher can address an envelope by
RoutingKeys ==
    UNION {HostsOf(t) : t \in Targets} \cup {target_to_subscribe_filter(t) : t \in Targets}

\* C6: the frames on the socket are a concatenation of complete envelopes of
\* six frames: the empty delimiter, the message type, the routing key, the
\* message_id, the context, the message; the first five carry SNDMORE and the
\* sixth does not.
C6_SixFrameEnvelopes ==
    /\ Len(socket) % 6 = 0
    /\ \A i \in 1..(Len(socket) \div 6) :
         LET e == EnvelopeAt(socket, i)
         IN  /\ \A f \in 1..5 : e[f].more
             /\ ~e[6].more
             /\ e[1].data = "" /\ ~e[1].pyobj
             /\ e[2].data \in {IntStr(m) : m \in SendTypes} /\ ~e[2].pyobj
             /\ e[3].data \in RoutingKeys /\ ~e[3].pyobj
             /\ e[4].data \in MessageIds /\ ~e[4].pyobj
             /\ e[5].data = "ctx" /\ e[5].pyobj
             /\ e[6].data = "msg" /\ e[6].pyobj

\* the call sender has written one envelope, addressed to a host
C6_Witness ==
    /\ publisher = "CallSenderProxy"
    /\ last.op = "call_do_send_request"
    /\ Len(socket) = 6
    /\ socket[3].data = last.host
    /\ ~socket[6].more

\* C7: get_all_hosts returns the endpoint list of the current routing record
\* of the target, whatever get_routable_host has popped before.
C7_SnapshotIsRecord ==
    [][\A t \in Targets :
         GetAllHosts(t) => last'.hosts = routing_table'[Key(t)][1]]_vars

\* C8 as stated: the routable_hosts of every target is the same before and
\* after a get_all_hosts call, in every state; the list handed out is a copy;
\* a call that follows another on the same target returns an equal list.
C8_Original ==
    [][ /\ (\E t \in Targets : GetAllHosts(t)) => UNCHANGED routable_hosts
        /\ CallerMutatesHosts => UNCHANGED routable_hosts
        /\ \A t \in Targets :
             (GetAllHosts(t) /\ last.op = "get_all_hosts" /\ last.target = t)
             => last'.hosts = last.hosts ]_vars

\* C8 as amended: get_all_hosts leaves every queue that exists as it was (on
\* the first lookup of a target, which has no queue yet, it builds the queue
\* from the hosts it fetches); the list handed out is a copy, so the caller
\* changing it leaves the queue alone; a call that follows another on the same
\* target returns an equal list.
C8_AllHostsKeepsQueues ==
    [][ /\ \A t \in Targets :
             GetAllHosts(t)
             => /\ \A k \in DOMAIN routable_hosts :
                     routable_hosts'[k] = routable_hosts[k]
                /\ DOMAIN routable_hosts' = DOMAIN routable_hosts \cup {Key(t)}
                /\ ~Has(routable_hosts, Key(t)) => routable_hosts'[Key(t)] = mm_hosts[t]
                /\ last'.hosts = routable_hosts'[Key(t)]
                /\ (last.op = "get_all_hosts" /\ last.target = t)
                   => last'.hosts = last.hosts
        /\ CallerMutatesHosts => UNCHANGED routable_hosts ]_vars

\* the caller has dropped the head of the list it got, and the queue is whole
C8_Witness ==
    /\ last.op = "caller_mutates"
    /\ last.target = "T1"
    /\ last.hosts = <<"B">>
    /\ routable_hosts[Key("T1")] = <<"A", "B">>

\* C9: a get_routable_host that finds the queue of the target empty rebuilds
\* it from the routing record and, when it is still empty, fails with
\* NoEndpointsAvailable; it never fails in the pop of an empty list.
C9_EmptyQueueExplicitError ==
    [][\A t \in Targets :
         GetRoutableHost(t)
         => /\ last'.err \in {"none", "NoEndpointsAvailable"}
            /\ last'.err = "NoEndpointsAvailable"
               => routing_table'[Key(t)][1] = <<>>]_vars

\* C10: receive_method raises and returns no reply when the first frame is
\* not empty or the integer of the third frame is not REPLY_TYPE; on a
\* well-formed reply it reads exactly five frames and returns the payload of
\* the fifth.
C10_ReplyValidated ==
    [][ReceiveMethod
       => /\ inbox[1].data # ""
             => /\ received'.err = "AssertionError"
                /\ received'.reply = "-"
          /\ ( /\ inbox[1].data = ""
               /\ IsDigits(inbox[3].data)
               /\ StrInt(inbox[3].data) # REPLY_TYPE )
             => /\ received'.err = "AssertionError"
                /\ received'.reply = "-"
          /\ ( /\ inbox[1].data = ""
               /\ inbox[3].data = IntStr(REPLY_TYPE)
               /\ inbox[5].pyobj )
             => /\ received'.err = "none"
                /\ received'.reply = inbox[5].data
                /\ received'.consumed = 5
                /\ inbox' = SubSeq(inbox, 6, Len(inbox))]_vars

\* a reply of another type was refused after its third frame
C10_Witness ==
    /\ received.err = "AssertionError"
    /\ received.consumed = 3
    /\ received.reply = "-"

\* a reply the proxy sends that passes every test of receive_method
WellFormedReply(msg) ==
    /\ Len(msg) = 5
    /\ msg[1].data = ""
    /\ msg[3].data = IntStr(REPLY_TYPE)
    /\ msg[5].pyobj
    /\ ~msg[5].more

\* C11: when receive_method raises on a reply that is followed on the socket
\* by a well-formed five-frame reply, every frame of the rejected reply is
\* gone from the socket: the next receive_method starts at the first frame of
\* the well-formed reply and returns its payload.
C11_RejectedReplyDiscarded ==
    [][( /\ ReceiveMethod
         /\ received'.err # "none"
         /\ Len(inbox) = 10
         /\ WellFormedReply(SubSeq(inbox, 6, 10)) )
       => /\ inbox' = SubSeq(inbox, 6, 10)
          /\ ReceiveMethodOp(inbox').reply = inbox[10].data]_vars

\* C12: with use_pub_sub off, when a send of the envelope for the i-th
\* endpoint of the snapshot fails, the socket still gets an envelope for
\* every endpoint after the i-th.
C12_FanOutSurvivesFailure ==
    [][\A request \in Requests : \A i \in 1..2 : \A f \in 1..6 :
         (~conf.use_pub_sub /\ SendRequestFails(request, i, f))
         => \A j \in (i + 1)..Len(last'.hosts) :
              \E p \in 1..(Len(socket') - 5) :
                SubSeq(socket', p, p + 5) =
                  DoSendRequest(<<>>, request, last'.hosts[j])]_vars

\* C13 as stated: every CallSenderProxy._do_send_request resolves one endpoint
\* and writes exactly one envelope.
C13_Original ==
    [][\A request \in Requests :
         CallDoSendRequest(request)
         => /\ last'.err = "none"
            /\ Len(socket') = Len(socket) + 6]_vars

\* C13 as amended: CallSenderProxy._do_send_request, with use_pub_sub on or
\* off and for every message type, pops the queue of the target in its own
\* routing table once and writes, after the frames already on the one socket
\* to the publishers, exactly one envelope addressed to the endpoint popped;
\* unless the queue is empty: then the lookup raises and nothing is written.
C13_CallSenderOneEndpoint ==
    [][\A request \in Requests :
         CallDoSendRequest(request)
         => LET t == request.target
                q == QueueFound(t)
            IN  /\ ConnectSocket(socket, t) = socket
                /\ IF q = <<>>
                   THEN /\ last'.err # "none"
                        /\ socket' = socket
                   ELSE /\ last'.err = "none"
                        /\ last'.host = Head(q)
                        /\ socket' = DoSendRequest(socket, request, Head(q))
                        /\ routable_hosts'[Key(t)] =
                             IF Len(q) > 1 THEN Tail(q)
                             ELSE routing_table'[Key(t)][1]]_vars

\* with use_pub_sub off and two hosts listed, a CALL went to the first only
C13_Witness ==
    /\ publisher = "CallSenderProxy"
    /\ ~conf.use_pub_sub
    /\ last.op = "call_do_send_request"
    /\ last.err = "none"
    /\ last.host = "A"
    /\ Len(socket) = 6
    /\ socket[2].data = IntStr(CALL_TYPE)
    /\ socket[3].data = "A"
    /\ routable_hosts[Key("T1")] = <<"B">>

\* C14: a lookup (get_all_hosts or get_routable_host) on a target that has no
\* record queries the matchmaker once; on a target that has a record it does
\* not query it when zmq_target_expire < 0, re-fetches the record when
\* zmq_target_expire = 0, and does not query it when zmq_target_expire > 0 and
\* the record is younger than zmq_target_expire.
C14_FreshnessRule ==
    [][\A t \in Targets :
         (GetAllHosts(t) \/ GetRoutableHost(t))
         => LET k == Key(t)
                ttl == conf.zmq_target_expire
            IN  IF ~Has(routing_table, k)
                THEN /\ last'.fetched = 1
                     /\ routing_table'[k] = <<mm_hosts[t], now>>
                ELSE /\ ttl < 0 => /\ last'.fetched = 0
                                   /\ routing_table'[k] = routing_table[k]
                     /\ ttl = 0 => /\ last'.fetched = 1
                                   /\ routing_table'[k] = <<mm_hosts[t], now>>
                     /\ (ttl > 0 /\ now - routing_table[k][2] < ttl)
                        => /\ last'.fetched = 0
                           /\ routing_table'[k] = routing_table[k]]_vars

\* with zmq_target_expire = 0 a lookup re-fetched a record that was there:
\* the record lists [B] while the queue built earlier still holds A
C14_Witness ==
    /\ conf.zmq_target_expire = 0
    /\ last.op = "get_all_hosts"
    /\ last.target = "T1"
    /\ last.fetched = 1
    /\ routing_table[Key("T1")][1] = <<"B">>
    /\ routable_hosts[Key("T1")] = <<"A">>

\* q is what is left of the list l after pops of its head
IsSuffix(q, l) ==
    /\ Len(q) <= Len(l)
    /\ q = SubSeq(l, Len(l) - Len(q) + 1, Len(l))

\* C15: after every step of a RoutingTable used by serialized lookups, a
\* queue that is not empty is a contiguous suffix of the host list of the
\* record that was current when the queue was last built; and a step leaves
\* a queue as it was, or pops its head, or builds it from the current record,
\* which happens only on the first lookup of the target (a get_routable_host
\* then pops the head of the queue just built) or in a get_routable_host that
\* pops the last host of the queue.
C15_QueueIsSuffixOfGeneration ==
    [][\A t \in Targets :
         LET k == Key(t)
         IN  /\ (Has(routable_hosts', k) /\ routable_hosts'[k] # <<>>)
                => /\ Has(generation', k)
                   /\ IsSuffix(routable_hosts'[k], generation'[k])
             /\ (~Has(routable_hosts, k) /\ Has(routable_hosts', k))
                => /\ ~Has(routing_table, k)
                   /\ generation'[k] = routing_table'[k][1]
                   /\ \/ routable_hosts'[k] = routing_table'[k][1]
                      \/ /\ GetRoutableHost(t)
                         /\ routable_hosts'[k] = Tail(routing_table'[k][1])
             /\ Has(routable_hosts, k)
                => \/ /\ routable_hosts'[k] = routable_hosts[k]
                      /\ Len(routable_hosts[k]) # 1 => generation'[k] = generation[k]
                   \/ /\ GetRoutableHost(t)
                      /\ Len(routable_hosts[k]) > 1
                      /\ routable_hosts'[k] = Tail(routable_hosts[k])
                      /\ generation'[k] = generation[k]
                   \/ /\ GetRoutableHost(t)
                      /\ Len(routable_hosts[k]) = 1
                      /\ routable_hosts'[k] = routing_table'[k][1]
                      /\ generation'[k] = routing_table'[k][1]]_vars

\* the record was re-fetched as [B, A] while the queue is still the rest, [B],
\* of the list [A, B] it was built from
C15_Witness ==
    /\ Has(routable_hosts, Key("T1"))
    /\ routable_hosts[Key("T1")] = <<"B">>
    /\ generation[Key("T1")] = <<"A", "B">>
    /\ routing_table[Key("T1")][1] = <<"B", "A">>

\* the router addresses of the pairs get_publishers lists, in order
RouterAddressesOf(publishers) ==
    [i \in 1..Len(publishers) |-> publishers[i][2]]

\* C16: a run of _update_connection calls connect_to_host once for the router
\* address of every pair get_publishers returns, in order, and disconnects
\* nothing: the connected set becomes the old one plus those addresses; a run
\* that follows a run over the same discovery result leaves the connected set
\* as it is; no step ever shrinks the connected set.
C16_UpdaterConnectsRouters ==
    [][ /\ UpdateConnection
           => /\ last'.hosts = RouterAddressesOf(mm_publishers)
              /\ connections' =
                   connections \cup {mm_publishers[i][2] : i \in 1..Len(mm_publishers)}
              /\ ( /\ last.op = "update_connection"
                   /\ last.hosts = RouterAddressesOf(mm_publishers) )
                 => connections' = connections
        /\ connections \subseteq connections' ]_vars

\* two pairs with the same router: two connect calls, one connection more; and
\* the router of an earlier discovery result is still connected
C16_Witness ==
    /\ last.op = "update_connection"
    /\ last.hosts = <<"router2", "router2">>
    /\ mm_publishers = << <<"pub1", "router2">>, <<"pub2", "router2">> >>
    /\ connections = {"router1", "router2"}

\* C17: when the queue of a target is empty (it was built from a fetch that
\* returned no endpoint) and a later lookup has re-fetched a record that
\* lists endpoints, get_routable_host on the target succeeds and returns an
\* endpoint of the record.
C17_EmptyQueueRecovers ==
    [][\A t \in Targets :
         ( /\ GetRoutableHost(t)
           /\ Has(routable_hosts, Key(t))
           /\ routable_hosts[Key(t)] = <<>>
           /\ Has(routing_table, Key(t))
           /\ routing_table[Key(t)][1] # <<>> )
         => /\ last'.err = "none"
            /\ \E i \in DOMAIN routing_table'[Key(t)][1] :
                 last'.host = routing_table'[Key(t)][1][i]]_vars

\* C18: a send_request of the DealerPublisherProxy (direct type, use_pub_sub
\* on) or a _do_send_request of the CallSenderProxy in which
\* get_routable_host raises writes no frame of the request: the socket holds
\* what it held before.
C18_NoPartialEnvelope ==
    [][\A request \in Requests :
         ( /\ SendRequest(request) \/ CallDoSendRequest(request)
           /\ last'.err \in {"IndexError", "KeyError"} )
         => /\ QueueFound(request.target) = <<>>
            /\ socket' = socket]_vars

\* the lookup of a direct request failed while the envelope of an earlier
\* request was on the socket, which holds that envelope and nothing more
C18_Witness ==
    /\ publisher = "DealerPublisherProxy"
    /\ conf.use_pub_sub
    /\ last.op = "send_request"
    /\ last.target = "T1"
    /\ last.err = "IndexError"
    /\ Len(socket) = 6
    /\ ~socket[6].more

\* C19: when threads run get_routable_host on a target for which the
\* matchmaker lists N > 0 endpoints, in every interleaving of their steps no
\* call fails, every endpoint handed out is one of the N, and among the
\* hand-outs of one rotation (the first N, the next N, ...) no endpoint comes
\* twice.
C19_ConcurrentLookupsSafe ==
    \A t \in Targets :
      mm_hosts[t] # <<>>
      => LET n == Len(mm_hosts[t])
             h == handed[t]
         IN  /\ \A th \in Threads :
                  thread[th].target = t => thread[th].err = "none"
             /\ \A i \in DOMAIN h : \E j \in DOMAIN mm_hosts[t] : h[i] = mm_hosts[t][j]
             /\ \A i, j \in DOMAIN h :
                  (i < j /\ (i - 1) \div n = (j - 1) \div n) => h[i] # h[j]

\* C20: when callers run _do_send_request on one socket at the same time,
\* the six frames of each envelope are contiguous in the frame stream of the
\* socket: every run of six frames, counted from the start, comes from one
\* caller.
C20_EnvelopesContiguous ==
    \A i, j \in DOMAIN writers :
      (i - 1) \div 6 = (j - 1) \div 6 => writers[i] = writers[j]

====
